---- MODULE Spec2Model ----
(***************************************************************************)
(* State-machine model of ids_association_manager.py: the exclusive table  *)
(* IDsAssociationManager and the shared table IDsManyToManyManager.  One   *)
(* behaviour follows one object from its construction through an arbitrary *)
(* sequence of calls of its public methods.  A call that raises leaves the *)
(* object as it was at the raise; the caller may go on using it.           *)
(***************************************************************************)
EXTENDS Integers, Sequences, FiniteSets, TLC

\* ------------------------------------------------------------- bounds
\* owner ids (A) are 1..MaxA
MaxA == 2
\* slot ids (B) a caller may name are 0..MaxB
MaxB == 1
\* longest explicit collection given to the constructor
MaxInit == 2
\* longest list of slots given to associate / dissociate
MaxTargets == 2

IdsA == 1..MaxA
IdsB == 0..MaxB

\* ------------------------------------------------------------- state
VARIABLES
    cls,          \* which class the object is
    single_mode,  \* self._single_mode (exclusive table only)
    ordered,      \* self._ordered
    universe,     \* the set of ids given to the constructor (not stored by the code)
    repeated_ids, \* whether self._free_pool started with some id in it twice (not stored)
    free_pool,    \* self._free_pool: sorted list (ordered) or set (unordered)
    b_to_a,       \* self._b_to_a   (exclusive table)
    b_to_as,      \* self._b_to_as  (shared table)
    a_to_bs       \* self._a_to_bs

vars == <<cls, single_mode, ordered, universe, repeated_ids, free_pool, b_to_a, b_to_as, a_to_bs>>

EXCL == "IDsAssociationManager"
M2M == "IDsManyToManyManager"

\* ------------------------------------------------------------- Python values
Range(f) == {f[i] : i \in DOMAIN f}

\* the empty dict
EmptyDict == [k \in {} |-> 0]
\* d[k] = v
DictSet(d, k, v) == [x \in (DOMAIN d) \cup {k} |-> IF x = k THEN v ELSE d[x]]
\* del d[k] / d.pop(k), for a key that is present
DictDel(d, k) == [x \in (DOMAIN d) \ {k} |-> d[x]]

\* all lists over S of length lo..hi
Lists(S, lo, hi) == UNION {[1..n -> S] : n \in lo..hi}
\* the orders in which iterating a set S may yield its elements
Orderings(S) == {f \in [1..Cardinality(S) -> S] : Range(f) = S}

\* an argument that is either an int or a list (isinstance(x, int) tells them apart)
AsInt(n) == [int |-> n]
AsList(l) == [list |-> l]
isinstance_int(x) == "int" \in DOMAIN x

\* bisect.bisect_left on a sorted list: 0-based leftmost insertion point
bisect_left(a, x) == Cardinality({i \in 1..Len(a) : a[i] < x})
\* bisect.bisect_right on a sorted list, used by bisect.insort
bisect_right(a, x) == Cardinality({i \in 1..Len(a) : a[i] <= x})
\* bisect.insort(a, x)
insort(a, x) ==
    LET k == bisect_right(a, x)
    IN SubSeq(a, 1, k) \o <<x>> \o SubSeq(a, k + 1, Len(a))
\* a.pop(idx), 0-based idx: the list without that element
list_pop(a, idx) == SubSeq(a, 1, idx) \o SubSeq(a, idx + 2, Len(a))
\* sorted(l)
RECURSIVE sorted(_)
sorted(l) == IF l = <<>> THEN <<>> ELSE insort(sorted(Tail(l)), Head(l))
\* list(S) for a set S, in ascending order (only ever passed to sorted)
RECURSIVE list_of_set(_)
list_of_set(S) ==
    IF S = {} THEN <<>>
    ELSE LET m == CHOOSE x \in S : \A y \in S : x <= y
         IN <<m>> \o list_of_set(S \ {m})

\* the ids in the free pool, whichever way it is stored
PoolIds(pool) == IF ordered THEN Range(pool) ELSE pool
\* len(self._free_pool)
PoolLen(pool) == IF ordered THEN Len(pool) ELSE Cardinality(pool)
\* how many times id b is in the free pool
PoolCount(pool, b) ==
    IF ordered THEN Cardinality({i \in 1..Len(pool) : pool[i] = b})
    ELSE IF b \in pool THEN 1 ELSE 0

\* ------------------------------------------------------------- construction
\* the constructor's max_b_ids: a count, or an explicit collection of ids
MaxBIds == {AsInt(n) : n \in 0..(MaxB + 1)} \cup {AsList(l) : l \in Lists(IdsB, 0, MaxInit)}

\* __init__: whether the constructor raises ValueError
init_raises(max_b_ids) ==
    IF isinstance_int(max_b_ids) THEN max_b_ids.int <= 0
    ELSE max_b_ids.list = <<>>

\* __init__: initial_ids (range(n) or list(max_b_ids))
initial_ids(max_b_ids) ==
    IF isinstance_int(max_b_ids)
    THEN [i \in 1..max_b_ids.int |-> i - 1]
    ELSE max_b_ids.list

\* __init__: self._free_pool
initial_pool(ids, ord) == IF ord THEN sorted(ids) ELSE Range(ids)

\* the object's fields as one record; exc is the exception a call ended with,
\* ret the value it returned (-1 for None)
Self == [free_pool |-> free_pool, b_to_a |-> b_to_a, b_to_as |-> b_to_as,
         a_to_bs |-> a_to_bs, exc |-> "none", ret |-> -1]

Init ==
    \E c \in {EXCL, M2M}, sm \in BOOLEAN, ord \in BOOLEAN, max_b_ids \in MaxBIds :
        /\ c = M2M => sm = FALSE
        /\ ~init_raises(max_b_ids)
        /\ cls = c
        /\ single_mode = sm
        /\ ordered = ord
        /\ universe = Range(initial_ids(max_b_ids))
        /\ repeated_ids = (ord /\ Len(initial_ids(max_b_ids))
                                      > Cardinality(Range(initial_ids(max_b_ids))))
        /\ free_pool = initial_pool(initial_ids(max_b_ids), ord)
        /\ b_to_a = EmptyDict
        /\ b_to_as = EmptyDict
        /\ a_to_bs = EmptyDict

\* ------------------------------------------------------------- exclusive table
Raise(s, e) == [s EXCEPT !.exc = e]

\* _release_id with list.append in place of bisect.insort
release_id_append(pool, b_id, check_duplicates) ==
    IF ordered THEN Append(pool, b_id) ELSE pool \cup {b_id}

\* _release_id
release_id(pool, b_id, check_duplicates) ==
    IF ordered
    THEN IF check_duplicates
         THEN LET idx == bisect_left(pool, b_id)
              IN IF idx = Len(pool) \/ pool[idx + 1] # b_id
                 THEN insort(pool, b_id)
                 ELSE pool
         ELSE insort(pool, b_id)
    ELSE pool \cup {b_id}

\* remove_b
remove_b(s, id_b) ==
    IF id_b \in DOMAIN s.b_to_a
    THEN LET old_a == s.b_to_a[id_b]
             s1 == [s EXCEPT !.b_to_a = DictDel(@, id_b)]
         IN IF old_a \notin DOMAIN s1.a_to_bs THEN Raise(s1, "KeyError")
            ELSE IF id_b \notin s1.a_to_bs[old_a] THEN Raise(s1, "KeyError")
            ELSE LET parent_set == s1.a_to_bs[old_a] \ {id_b}
                     s2 == [s1 EXCEPT !.a_to_bs =
                               IF parent_set = {} THEN DictDel(@, old_a)
                               ELSE DictSet(@, old_a, parent_set)]
                 IN [s2 EXCEPT !.free_pool = release_id(@, id_b, FALSE)]
    ELSE [s EXCEPT !.free_pool = release_id(@, id_b, TRUE)]

\* for old_b in list(self._a_to_bs[id_a]): self.remove_b(old_b)
\* (old_bs is the list, taken before the loop starts)
RECURSIVE remove_each(_, _, _)
remove_each(s, old_bs, i) ==
    IF s.exc # "none" \/ i > Len(old_bs) THEN s
    ELSE remove_each(remove_b(s, old_bs[i]), old_bs, i + 1)

\* associate that leaves b_id in the free pool
pool_discard_keep(pool, b_id) == pool

\* associate: taking b_id out of the free pool
pool_discard(pool, b_id) ==
    IF ordered
    THEN LET idx == bisect_left(pool, b_id)
         IN IF idx < Len(pool) /\ pool[idx + 1] = b_id
            THEN list_pop(pool, idx)
            ELSE pool
    ELSE pool \ {b_id}

\* associate: self._b_to_a[b_id] = id_a; target_set.add(b_id)
attach(s, id_a, b_id) ==
    [s EXCEPT !.b_to_a = DictSet(@, b_id, id_a),
              !.a_to_bs = DictSet(@, id_a, @[id_a] \cup {b_id})]

\* associate: one round of "for b_id in targets"
associate_step(s, id_a, b_id) ==
    IF b_id \in DOMAIN s.b_to_a
    THEN LET old_a == s.b_to_a[b_id]
         IN IF old_a = id_a THEN s
            ELSE IF old_a \notin DOMAIN s.a_to_bs THEN Raise(s, "KeyError")
            ELSE IF b_id \notin s.a_to_bs[old_a] THEN Raise(s, "KeyError")
            ELSE LET old_set == s.a_to_bs[old_a] \ {b_id}
                     s1 == [s EXCEPT !.a_to_bs =
                               IF old_set = {} THEN DictDel(@, old_a)
                               ELSE DictSet(@, old_a, old_set)]
                 IN attach(s1, id_a, b_id)
    ELSE attach([s EXCEPT !.free_pool = pool_discard(@, b_id)], id_a, b_id)

RECURSIVE associate_loop(_, _, _, _)
associate_loop(s, id_a, targets, i) ==
    IF s.exc # "none" \/ i > Len(targets) THEN s
    ELSE associate_loop(associate_step(s, id_a, targets[i]), id_a, targets, i + 1)

\* associate with the single-mode length test made after the release of the
\* slots id_a holds instead of before it
associate_release_first(s, id_a, id_bs, old_bs) ==
    LET targets == IF isinstance_int(id_bs) THEN <<id_bs.int>> ELSE id_bs.list
        s1 == IF single_mode /\ id_a \in DOMAIN s.a_to_bs
              THEN remove_each(s, old_bs, 1)
              ELSE s
    IN IF s1.exc # "none" THEN s1
       ELSE IF single_mode /\ Len(targets) > 1 THEN Raise(s1, "ValueError")
       ELSE associate_loop(
               IF id_a \notin DOMAIN s1.a_to_bs
               THEN [s1 EXCEPT !.a_to_bs = DictSet(@, id_a, {})]
               ELSE s1,
               id_a, targets, 1)

\* associate(id_a, id_bs); old_bs is list(self._a_to_bs[id_a]) in the order the
\* set yields it (used in single mode only)
associate(s, id_a, id_bs, old_bs) ==
    LET targets == IF isinstance_int(id_bs) THEN <<id_bs.int>> ELSE id_bs.list
        s1 == IF single_mode
              THEN IF Len(targets) > 1 THEN Raise(s, "ValueError")
                   ELSE IF id_a \in DOMAIN s.a_to_bs THEN remove_each(s, old_bs, 1)
                   ELSE s
              ELSE s
        s2 == IF id_a \notin DOMAIN s1.a_to_bs
              THEN [s1 EXCEPT !.a_to_bs = DictSet(@, id_a, {})]
              ELSE s1
    IN IF s1.exc # "none" THEN s1
       ELSE associate_loop(s2, id_a, targets, 1)

\* allocate(id_a, force); old_bs as in associate; first is the element
\* next(iter(self._a_to_bs[id_a])) yields; popped is the element set.pop() yields
allocate(s, id_a, force, old_bs, first, popped) ==
    IF single_mode /\ id_a \in DOMAIN s.a_to_bs /\ ~force
    THEN IF s.a_to_bs[id_a] = {} THEN Raise(s, "StopIteration")
         ELSE [s EXCEPT !.ret = first]
    ELSE LET s1 == IF single_mode /\ id_a \in DOMAIN s.a_to_bs
                   THEN remove_each(s, old_bs, 1)
                   ELSE s
         IN IF s1.exc # "none" THEN s1
            ELSE IF PoolLen(s1.free_pool) = 0 THEN Raise(s1, "MemoryError")
            ELSE LET b_id == IF ordered THEN s1.free_pool[1] ELSE popped
                     s2 == [s1 EXCEPT !.free_pool =
                               IF ordered THEN list_pop(@, 0) ELSE @ \ {b_id}]
                     s3 == IF id_a \notin DOMAIN s2.a_to_bs
                           THEN [s2 EXCEPT !.a_to_bs = DictSet(@, id_a, {})]
                           ELSE s2
                 IN [attach(s3, id_a, b_id) EXCEPT !.ret = b_id]

\* remove_a(id_a); bs_to_free is the popped set in the order it is iterated
RECURSIVE remove_a_loop(_, _, _)
remove_a_loop(s, bs_to_free, i) ==
    IF s.exc # "none" \/ i > Len(bs_to_free) THEN s
    ELSE LET b_id == bs_to_free[i]
         IN IF b_id \notin DOMAIN s.b_to_a THEN Raise(s, "KeyError")
            ELSE remove_a_loop(
                    [s EXCEPT !.b_to_a = DictDel(@, b_id),
                              !.free_pool = release_id(@, b_id, FALSE)],
                    bs_to_free, i + 1)

remove_a(s, id_a, bs_to_free) ==
    IF id_a \in DOMAIN s.a_to_bs
    THEN remove_a_loop([s EXCEPT !.a_to_bs = DictDel(@, id_a)], bs_to_free, 1)
    ELSE s

\* clear
clear(s) ==
    LET all_bs == DOMAIN s.b_to_a
    IN [s EXCEPT !.b_to_a = EmptyDict,
                 !.a_to_bs = EmptyDict,
                 !.free_pool = IF ordered
                               THEN sorted(list_of_set(all_bs) \o @)
                               ELSE @ \cup all_bs]

\* ------------------------------------------------------------- shared table
\* _release_id
m2m_release_id(pool, b_id, check_duplicates) ==
    IF ordered
    THEN IF check_duplicates
         THEN LET idx == bisect_left(pool, b_id)
              IN IF idx = Len(pool) \/ pool[idx + 1] # b_id
                 THEN insort(pool, b_id)
                 ELSE pool
         ELSE insort(pool, b_id)
    ELSE pool \cup {b_id}

\* associate: "Remove from free pool if needed"
m2m_pool_discard(pool, b_id) ==
    IF ordered
    THEN LET idx == bisect_left(pool, b_id)
         IN IF idx < Len(pool) /\ pool[idx + 1] = b_id
            THEN list_pop(pool, idx)
            ELSE pool
    ELSE pool \ {b_id}

\* associate / allocate: "Add to mappings (Many-to-Many)"
m2m_attach(s, id_a, b_id) ==
    LET owners == IF b_id \in DOMAIN s.b_to_as THEN s.b_to_as[b_id] ELSE {}
    IN [s EXCEPT !.b_to_as = DictSet(@, b_id, owners \cup {id_a}),
                 !.a_to_bs = DictSet(@, id_a, @[id_a] \cup {b_id})]

RECURSIVE m2m_associate_loop(_, _, _, _)
m2m_associate_loop(s, id_a, targets, i) ==
    IF i > Len(targets) THEN s
    ELSE LET b_id == targets[i]
             s1 == [s EXCEPT !.free_pool = m2m_pool_discard(@, b_id)]
         IN m2m_associate_loop(m2m_attach(s1, id_a, b_id), id_a, targets, i + 1)

\* associate(id_a, id_bs)
m2m_associate(s, id_a, id_bs) ==
    LET targets == IF isinstance_int(id_bs) THEN <<id_bs.int>> ELSE id_bs.list
        s1 == IF id_a \notin DOMAIN s.a_to_bs
              THEN [s EXCEPT !.a_to_bs = DictSet(@, id_a, {})]
              ELSE s
    IN m2m_associate_loop(s1, id_a, targets, 1)

\* dissociate's round without its update of self._b_to_as
m2m_dissociate_step_one_sided(s, id_a, b_id) ==
    [s EXCEPT !.a_to_bs[id_a] = @ \ {b_id}]

\* dissociate: one round of "for b_id in targets"
m2m_dissociate_step(s, id_a, b_id) ==
    LET s1 == [s EXCEPT !.a_to_bs[id_a] = @ \ {b_id}]
    IN IF b_id \in DOMAIN s1.b_to_as /\ id_a \in s1.b_to_as[b_id]
       THEN LET owners == s1.b_to_as[b_id] \ {id_a}
            IN IF owners = {}
               THEN [s1 EXCEPT !.b_to_as = DictDel(@, b_id),
                               !.free_pool = m2m_release_id(@, b_id, FALSE)]
               ELSE [s1 EXCEPT !.b_to_as = DictSet(@, b_id, owners)]
       ELSE s1

RECURSIVE m2m_dissociate_loop(_, _, _, _)
m2m_dissociate_loop(s, id_a, targets, i) ==
    IF i > Len(targets) THEN s
    ELSE m2m_dissociate_loop(m2m_dissociate_step(s, id_a, targets[i]), id_a, targets, i + 1)

\* dissociate(id_a, id_bs)
m2m_dissociate(s, id_a, id_bs) ==
    LET targets == IF isinstance_int(id_bs) THEN <<id_bs.int>> ELSE id_bs.list
    IN IF id_a \notin DOMAIN s.a_to_bs THEN s
       ELSE LET s1 == m2m_dissociate_loop(s, id_a, targets, 1)
            IN IF s1.a_to_bs[id_a] = {}
               THEN [s1 EXCEPT !.a_to_bs = DictDel(@, id_a)]
               ELSE s1

\* allocate(id_a); popped is the element set.pop() yields
m2m_allocate(s, id_a, popped) ==
    IF PoolLen(s.free_pool) = 0 THEN Raise(s, "MemoryError")
    ELSE LET b_id == IF ordered THEN s.free_pool[1] ELSE popped
             s1 == [s EXCEPT !.free_pool =
                       IF ordered THEN list_pop(@, 0) ELSE @ \ {b_id}]
             s2 == IF id_a \notin DOMAIN s1.a_to_bs
                   THEN [s1 EXCEPT !.a_to_bs = DictSet(@, id_a, {})]
                   ELSE s1
         IN [m2m_attach(s2, id_a, b_id) EXCEPT !.ret = b_id]

\* remove_a: "for b_id in bs_to_check"
RECURSIVE m2m_remove_a_loop(_, _, _, _)
m2m_remove_a_loop(s, id_a, bs_to_check, i) ==
    IF i > Len(bs_to_check) THEN s
    ELSE LET b_id == bs_to_check[i]
             s1 == IF b_id \in DOMAIN s.b_to_as
                   THEN LET owners == s.b_to_as[b_id] \ {id_a}
                        IN IF owners = {}
                           THEN [s EXCEPT !.b_to_as = DictDel(@, b_id),
                                          !.free_pool = m2m_release_id(@, b_id, FALSE)]
                           ELSE [s EXCEPT !.b_to_as = DictSet(@, b_id, owners)]
                   ELSE s
         IN m2m_remove_a_loop(s1, id_a, bs_to_check, i + 1)

\* remove_a(id_a); bs_to_check is list(self._a_to_bs.pop(id_a)) in the order
\* the set yields it
m2m_remove_a(s, id_a, bs_to_check) ==
    IF id_a \notin DOMAIN s.a_to_bs THEN s
    ELSE m2m_remove_a_loop([s EXCEPT !.a_to_bs = DictDel(@, id_a)], id_a, bs_to_check, 1)

\* remove_b: "for owner_a in owners"
RECURSIVE m2m_remove_b_loop(_, _, _, _)
m2m_remove_b_loop(s, id_b, owners, i) ==
    IF i > Len(owners) THEN s
    ELSE LET owner_a == owners[i]
             s1 == IF owner_a \in DOMAIN s.a_to_bs
                   THEN LET bs == s.a_to_bs[owner_a] \ {id_b}
                        IN IF bs = {}
                           THEN [s EXCEPT !.a_to_bs = DictDel(@, owner_a)]
                           ELSE [s EXCEPT !.a_to_bs = DictSet(@, owner_a, bs)]
                   ELSE s
         IN m2m_remove_b_loop(s1, id_b, owners, i + 1)

\* remove_b that detaches only the first owner it finds and frees id_b only
\* when no owner remains, the way dissociate counts references
m2m_remove_b_refcounted(s, id_b, owners) ==
    IF id_b \in DOMAIN s.b_to_as
    THEN LET s1 == m2m_remove_b_loop(s, id_b, SubSeq(owners, 1, 1), 1)
             rest == s.b_to_as[id_b] \ Range(SubSeq(owners, 1, 1))
         IN IF rest = {}
            THEN [s1 EXCEPT !.b_to_as = DictDel(@, id_b),
                            !.free_pool = m2m_release_id(@, id_b, FALSE)]
            ELSE [s1 EXCEPT !.b_to_as = DictSet(@, id_b, rest)]
    ELSE [s EXCEPT !.free_pool = m2m_release_id(@, id_b, TRUE)]

\* remove_b(id_b); owners is list(self._b_to_as.pop(id_b)) in the order the
\* set yields it
m2m_remove_b(s, id_b, owners) ==
    IF id_b \in DOMAIN s.b_to_as
    THEN LET s1 == m2m_remove_b_loop([s EXCEPT !.b_to_as = DictDel(@, id_b)],
                                     id_b, owners, 1)
         IN [s1 EXCEPT !.free_pool = m2m_release_id(@, id_b, FALSE)]
    ELSE [s EXCEPT !.free_pool = m2m_release_id(@, id_b, TRUE)]

\* clear
m2m_clear(s) ==
    LET all_bs == DOMAIN s.b_to_as
    IN [s EXCEPT !.b_to_as = EmptyDict,
                 !.a_to_bs = EmptyDict,
                 !.free_pool = IF ordered
                               THEN sorted(list_of_set(all_bs) \o @)
                               ELSE @ \cup all_bs]

\* ------------------------------------------------------------- calls
\* what a call may be given as id_bs
IdBs == {AsInt(b) : b \in IdsB} \cup {AsList(l) : l \in Lists(IdsB, 0, MaxTargets)}

\* the orders list(s.a_to_bs[id_a]) may come in
OldBs(s, id_a) ==
    IF id_a \in DOMAIN s.a_to_bs THEN Orderings(s.a_to_bs[id_a]) ELSE {<<>>}
\* the same, where only single mode takes the list
SingleOldBs(s, id_a) == IF single_mode THEN OldBs(s, id_a) ELSE {<<>>}
\* what next(iter(s.a_to_bs[id_a])) may yield (0 when there is nothing to yield)
Firsts(s, id_a) ==
    IF id_a \in DOMAIN s.a_to_bs /\ s.a_to_bs[id_a] # {} THEN s.a_to_bs[id_a] ELSE {0}
\* the orders list(s.b_to_as[id_b]) may come in
Owners(s, id_b) ==
    IF id_b \in DOMAIN s.b_to_as THEN Orderings(s.b_to_as[id_b]) ELSE {<<>>}
\* what free_pool.pop() may yield from pool (0 when the pool is a list or empty)
Pops(pool) == IF ~ordered /\ pool # {} THEN pool ELSE {0}

\* every way a call on the object s can end: the object's fields after it, the
\* value returned and the exception raised
associate_results(s, id_a, id_bs) ==
    {associate(s, id_a, id_bs, old_bs) : old_bs \in SingleOldBs(s, id_a)}

allocate_results(s, id_a, force) ==
    UNION {
        LET pool == IF single_mode /\ id_a \in DOMAIN s.a_to_bs /\ force
                    THEN remove_each(s, old_bs, 1).free_pool
                    ELSE s.free_pool
        IN {allocate(s, id_a, force, old_bs, first, popped) :
               first \in Firsts(s, id_a), popped \in Pops(pool)}
        : old_bs \in SingleOldBs(s, id_a)}

remove_a_results(s, id_a) ==
    {remove_a(s, id_a, bs_to_free) : bs_to_free \in OldBs(s, id_a)}

m2m_allocate_results(s, id_a) ==
    {m2m_allocate(s, id_a, popped) : popped \in Pops(s.free_pool)}

m2m_remove_a_results(s, id_a) ==
    {m2m_remove_a(s, id_a, bs_to_check) : bs_to_check \in OldBs(s, id_a)}

m2m_remove_b_results(s, id_b) ==
    {m2m_remove_b(s, id_b, owners) : owners \in Owners(s, id_b)}

\* the object after a call that left its fields as s has them
Call(s) ==
    /\ free_pool' = s.free_pool
    /\ b_to_a' = s.b_to_a
    /\ b_to_as' = s.b_to_as
    /\ a_to_bs' = s.a_to_bs
    /\ UNCHANGED <<cls, single_mode, ordered, universe, repeated_ids>>

Associate ==
    /\ cls = EXCL
    /\ \E id_a \in IdsA, id_bs \in IdBs :
          \E r \in associate_results(Self, id_a, id_bs) : Call(r)

Allocate ==
    /\ cls = EXCL
    /\ \E id_a \in IdsA, force \in BOOLEAN :
          \E r \in allocate_results(Self, id_a, force) : Call(r)

RemoveA ==
    /\ cls = EXCL
    /\ \E id_a \in IdsA :
          \E r \in remove_a_results(Self, id_a) : Call(r)

RemoveB ==
    /\ cls = EXCL
    /\ \E id_b \in IdsB : Call(remove_b(Self, id_b))

Clear ==
    /\ cls = EXCL
    /\ Call(clear(Self))

M2MAssociate ==
    /\ cls = M2M
    /\ \E id_a \in IdsA, id_bs \in IdBs : Call(m2m_associate(Self, id_a, id_bs))

M2MDissociate ==
    /\ cls = M2M
    /\ \E id_a \in IdsA, id_bs \in IdBs : Call(m2m_dissociate(Self, id_a, id_bs))

M2MAllocate ==
    /\ cls = M2M
    /\ \E id_a \in IdsA :
          \E r \in m2m_allocate_results(Self, id_a) : Call(r)

M2MRemoveA ==
    /\ cls = M2M
    /\ \E id_a \in IdsA :
          \E r \in m2m_remove_a_results(Self, id_a) : Call(r)

M2MRemoveB ==
    /\ cls = M2M
    /\ \E id_b \in IdsB :
          \E r \in m2m_remove_b_results(Self, id_b) : Call(r)

M2MClear ==
    /\ cls = M2M
    /\ Call(m2m_clear(Self))

Next ==
    \/ Associate
    \/ Allocate
    \/ RemoveA
    \/ RemoveB
    \/ Clear
    \/ M2MAssociate
    \/ M2MDissociate
    \/ M2MAllocate
    \/ M2MRemoveA
    \/ M2MRemoveB
    \/ M2MClear

Spec == Init /\ [][Next]_vars

\* ------------------------------------------------------------- accessors
\* get_bs (multi-slot form): frozenset(s.a_to_bs.get(id_a, ()))
get_bs(s, id_a) == IF id_a \in DOMAIN s.a_to_bs THEN s.a_to_bs[id_a] ELSE {}
\* get_a(id_b) == id_a, for an owner id_a (get_a gives None for an unknown slot)
get_a_is(s, id_b, id_a) == id_b \in DOMAIN s.b_to_a /\ s.b_to_a[id_b] = id_a
\* get_as: frozenset(s.b_to_as.get(id_b, ()))
get_as(s, id_b) == IF id_b \in DOMAIN s.b_to_as THEN s.b_to_as[id_b] ELSE {}
\* count_free
count_free(s) == PoolLen(s.free_pool)

\* the owners whose slot set holds id_b
holders(s, id_b) == {o \in IdsA : id_b \in get_bs(s, o)}
\* the free pool started with every id of the universe in it once
DistinctPool == ~repeated_ids

\* ------------------------------------------------------------- claims

\* C1 (exclusive table, bidirectional consistency): in every reachable state,
\* for every owner o and slot b, get_a(b) = o exactly when b is in the slot set
\* recorded for o.
C1_ExclusiveBidirectional ==
    cls = EXCL =>
        \A o \in IdsA, b \in IdsB : get_a_is(Self, b, o) <=> b \in get_bs(Self, o)

\* C1, on a pool built without a repeated id: the same statement.
C1_ExclusiveBidirectional_DistinctPool == DistinctPool => C1_ExclusiveBidirectional

\* C2 (exclusive table, partition): in every reachable state every slot of the
\* universe is either in the free pool exactly once and held by nobody, or not
\* in the free pool and held by exactly one owner.
C2_ExclusivePartition ==
    cls = EXCL =>
        \A b \in universe :
            \/ /\ PoolCount(free_pool, b) = 1
               /\ holders(Self, b) = {}
               /\ b \notin DOMAIN b_to_a
            \/ /\ PoolCount(free_pool, b) = 0
               /\ Cardinality(holders(Self, b)) = 1
               /\ b \in DOMAIN b_to_a

\* C2, on a pool built without a repeated id: the same statement.
C2_ExclusivePartition_DistinctPool == DistinctPool => C2_ExclusivePartition

\* C3 (shared table, partition): in every reachable state a slot of the universe
\* is in the free pool exactly when its owner set is empty or absent.
C3_SharedPartition ==
    cls = M2M =>
        \A b \in universe : (b \in PoolIds(free_pool)) <=> (get_as(Self, b) = {})

\* C3, on a pool built without a repeated id: the same statement.
C3_SharedPartition_DistinctPool == DistinctPool => C3_SharedPartition

\* C4 (shared table, bidirectional consistency): in every reachable state, for
\* every owner o and slot b, b is in the owner->slots entry of o exactly when o
\* is in the slot->owners entry of b.
C4_SharedBidirectional ==
    cls = M2M =>
        \A o \in IdsA, b \in IdsB : (b \in get_bs(Self, o)) <=> (o \in get_as(Self, b))

\* C4 witness: a slot shared by two owners, one of which also holds a slot the
\* other does not, so that a dissociate naming a slot its owner does not hold
\* has a shared slot and an unshared one to get wrong.
C4_Witness ==
    /\ cls = M2M
    /\ \E b \in IdsB : Cardinality(get_as(Self, b)) = 2
    /\ \E o \in IdsA, p \in IdsA, b \in IdsB :
          /\ b \in get_bs(Self, o)
          /\ get_bs(Self, p) # {}
          /\ b \notin get_bs(Self, p)
          /\ m2m_dissociate(Self, p, AsInt(b)) = Self


\* what a call names: targets as a set
named(id_bs) == IF isinstance_int(id_bs) THEN {id_bs.int} ELSE Range(id_bs.list)
\* min(S)
SetMin(S) == CHOOSE x \in S : \A y \in S : x <= y
\* the owners that hold id_b according to either index of the exclusive table
owners_before(s, id_b) == holders(s, id_b) \cup {o \in IdsA : get_a_is(s, id_b, o)}

\* C5 (allocate hands out fresh slots): in every reachable state of either
\* table, a slot that allocate(owner) returns was held by no owner other than
\* the caller right before the call, and right after it its owner is the caller
\* (exclusive table) / its owner set is exactly {caller} (shared table).
C5_AllocateFresh ==
    /\ cls = EXCL =>
          \A id_a \in IdsA, force \in BOOLEAN :
             \A r \in allocate_results(Self, id_a, force) :
                r.exc = "none" =>
                   /\ owners_before(Self, r.ret) \subseteq {id_a}
                   /\ get_a_is(r, r.ret, id_a)
    /\ cls = M2M =>
          \A id_a \in IdsA :
             \A r \in m2m_allocate_results(Self, id_a) :
                r.exc = "none" =>
                   /\ get_as(Self, r.ret) \cup holders(Self, r.ret) \subseteq {id_a}
                   /\ get_as(r, r.ret) = {id_a}

\* C5, on a pool built without a repeated id: the same statement.
C5_AllocateFresh_DistinctPool == DistinctPool => C5_AllocateFresh

\* C6 (single-mode cardinality): on an exclusive table in single mode every
\* owner holds at most one slot in every reachable state, and associate(o, b)
\* for an owner holding a different slot c leaves o holding exactly b with c
\* in the free pool.
C6_SingleModeCardinality ==
    (cls = EXCL /\ single_mode) =>
        /\ \A o \in IdsA : Cardinality(get_bs(Self, o)) <= 1
        /\ \A o \in IdsA, b \in IdsB, c \in IdsB :
              (get_bs(Self, o) = {c} /\ c # b) =>
                 \A id_bs \in {AsInt(b), AsList(<<b>>)} :
                    \A r \in associate_results(Self, o, id_bs) :
                       /\ r.exc = "none"
                       /\ get_bs(r, o) = {b}
                       /\ c \in PoolIds(r.free_pool)

\* C6, on a pool built without a repeated id: the same statement.
C6_SingleModeCardinality_DistinctPool == DistinctPool => C6_SingleModeCardinality

\* C7 (exclusive stealing): for every associate(o, slots) call that single mode
\* does not reject, every named slot ends up pointing to o and in o's slot set;
\* a named slot b that another owner p held is no longer in p's set, p's entry is
\* gone when the call named all of p's slots, every slot of p the call did not
\* name stays with p, and in multi-slot mode the free pool holds a held or
\* unnamed slot exactly as often as before.
C7_ExclusiveStealing ==
    cls = EXCL =>
        \A o \in IdsA, id_bs \in IdBs :
           \A r \in associate_results(Self, o, id_bs) :
              r.exc # "ValueError" =>
                 /\ r.exc = "none"
                 /\ \A b \in named(id_bs) : get_a_is(r, b, o) /\ b \in get_bs(r, o)
                 /\ \A b \in named(id_bs), p \in IdsA \ {o} :
                       get_a_is(Self, b, p) =>
                          /\ b \notin get_bs(r, p)
                          /\ (get_bs(Self, p) \subseteq named(id_bs)) => p \notin DOMAIN r.a_to_bs
                          /\ \A c \in get_bs(Self, p) \ named(id_bs) :
                                c \in get_bs(r, p) /\ get_a_is(r, c, p)
                 /\ ~single_mode =>
                       \A b \in IdsB :
                          (b \in DOMAIN b_to_a \/ b \notin named(id_bs)) =>
                             PoolCount(r.free_pool, b) = PoolCount(free_pool, b)

\* C7, on a pool built without a repeated id: the same statement.
C7_ExclusiveStealing_DistinctPool == DistinctPool => C7_ExclusiveStealing

\* C8 (shared reference-counted release): after dissociate(owner, slots) or
\* remove_a(owner) on the shared table, a slot that was held before the call is
\* in the free pool exactly when the call left its owner set empty.
C8_SharedRelease ==
    cls = M2M =>
        \A o \in IdsA :
           /\ \A id_bs \in IdBs :
                 LET r == m2m_dissociate(Self, o, id_bs)
                 IN \A b \in IdsB :
                       get_as(Self, b) # {} =>
                          ((b \in PoolIds(r.free_pool)) <=> (get_as(r, b) = {}))
           /\ \A r \in m2m_remove_a_results(Self, o) :
                 \A b \in IdsB :
                    get_as(Self, b) # {} =>
                       ((b \in PoolIds(r.free_pool)) <=> (get_as(r, b) = {}))

\* C8, on a pool built without a repeated id: the same statement.
C8_SharedRelease_DistinctPool == DistinctPool => C8_SharedRelease

\* the ids a draw of allocate(id_a, force) on the exclusive table finds in the
\* free pool: the free ids, and in single mode with force the slots id_a gives up
ids_at_draw(s, id_a, force) ==
    PoolIds(s.free_pool) \cup
        (IF single_mode /\ force THEN get_bs(s, id_a) ELSE {})

\* C9 (ordered allocation): on a table built with ordered = True, every allocate
\* call that draws from the pool returns the smallest id in the free pool at the
\* moment of the draw.
C9_OrderedAllocation ==
    ordered =>
        /\ cls = EXCL =>
              \A id_a \in IdsA, force \in BOOLEAN :
                 \A r \in allocate_results(Self, id_a, force) :
                    (r.exc = "none" /\ ~(single_mode /\ id_a \in DOMAIN a_to_bs /\ ~force)) =>
                       r.ret = SetMin(ids_at_draw(Self, id_a, force))
        /\ cls = M2M =>
              \A id_a \in IdsA :
                 \A r \in m2m_allocate_results(Self, id_a) :
                    r.exc = "none" => r.ret = SetMin(PoolIds(free_pool))

\* C9 witness: an ordered exclusive table built from a count, where a larger
\* id of the universe is still held and allocate returns a smaller id that is
\* free again.
C9_Witness ==
    /\ ordered
    /\ cls = EXCL
    /\ ~repeated_ids
    /\ \E id_a \in IdsA : \E r \in allocate_results(Self, id_a, FALSE) :
          /\ r.exc = "none"
          /\ id_a \notin DOMAIN a_to_bs
          /\ r.ret \in universe
          /\ \E b \in universe \cap DOMAIN b_to_a : r.ret < b

\* C10 (forced reallocation): on an exclusive table in single mode with
\* ordered = True, allocate(o, force=True) for an owner holding slot b returns
\* the minimum of the free ids and b, leaves o holding exactly the returned
\* slot, and leaves count_free as it was.
C10_ForcedReallocation ==
    (cls = EXCL /\ single_mode /\ ordered) =>
        \A o \in IdsA, b \in IdsB :
           get_bs(Self, o) = {b} =>
              \A r \in allocate_results(Self, o, TRUE) :
                 /\ r.exc = "none"
                 /\ r.ret = SetMin(PoolIds(free_pool) \cup {b})
                 /\ get_bs(r, o) = {r.ret}
                 /\ count_free(r) = count_free(Self)

\* C10, on a pool built without a repeated id: the same statement.
C10_ForcedReallocation_DistinctPool == DistinctPool => C10_ForcedReallocation

\* the object as the next call finds it after a call that ended as r
after(r) == [r EXCEPT !.exc = "none", !.ret = -1]
\* the fields of r and s are equal (free pool, both indexes)
same_table(r, s) ==
    /\ r.free_pool = s.free_pool
    /\ r.b_to_a = s.b_to_a
    /\ r.b_to_as = s.b_to_as
    /\ r.a_to_bs = s.a_to_bs

\* every way allocate(id_a) called right after an allocate(id_a) that ended as
\* r1 can end, both without force; iterating a set that has not changed since
\* the first call yields the element it yielded then
allocate_again_results(r1, id_a) ==
    {allocate(after(r1), id_a, FALSE, <<>>, first, popped) :
        first \in (IF r1.ret \in get_bs(r1, id_a) THEN {r1.ret}
                   ELSE Firsts(after(r1), id_a)),
        popped \in Pops(r1.free_pool)}

\* C11 (idempotent allocation): on an exclusive table in single mode, in every
\* reachable state, allocate(o) without force returns a slot unless o holds
\* nothing and the free pool is empty, and a second allocate(o) right after it
\* returns the same slot and leaves the free pool and both indexes as the first
\* call left them.
C11_IdempotentAllocation ==
    (cls = EXCL /\ single_mode) =>
        \A o \in IdsA :
           \A r1 \in allocate_results(Self, o, FALSE) :
              /\ r1.exc # "none" =>
                    /\ r1.exc = "MemoryError"
                    /\ count_free(Self) = 0
                    /\ get_bs(Self, o) = {}
              /\ r1.exc = "none" =>
                    \A r2 \in allocate_again_results(r1, o) :
                       /\ r2.exc = "none"
                       /\ r2.ret = r1.ret
                       /\ same_table(r2, r1)

\* C11, for a first call that returned a slot: the second call returns the same
\* slot and changes nothing.
C11_IdempotentAllocation_Returned ==
    (cls = EXCL /\ single_mode) =>
        \A o \in IdsA :
           \A r1 \in allocate_results(Self, o, FALSE) :
              r1.exc = "none" =>
                 \A r2 \in allocate_again_results(r1, o) :
                    /\ r2.exc = "none"
                    /\ r2.ret = r1.ret
                    /\ same_table(r2, r1)

\* no owner is recorded with an empty slot set
NoEmptyEntry == \A o \in DOMAIN a_to_bs : a_to_bs[o] # {}

\* allocate(id_a, force) on the exclusive table has to draw from the free pool:
\* always in multi-slot mode, and in single mode when forced or when id_a holds
\* no slot
draw_needed(s, id_a, force) == ~single_mode \/ force \/ get_bs(s, id_a) = {}

\* the free pool as the draw of allocate(id_a, force) finds it: in single mode
\* with force, after the slots of id_a went back to it
pool_at_draw(s, id_a, force, old_bs) ==
    IF single_mode /\ id_a \in DOMAIN s.a_to_bs /\ force
    THEN remove_each(s, old_bs, 1).free_pool
    ELSE s.free_pool

\* C12 (pool exhaustion): in either table, allocate raises MemoryError exactly
\* when it has to draw and the free pool is empty at the draw, and an allocate
\* that raised MemoryError left the free pool and both indexes as they were
\* before the call (so no entry was created for the caller).
C12_PoolExhaustion ==
    /\ cls = EXCL =>
          \A id_a \in IdsA, force \in BOOLEAN :
             \A old_bs \in SingleOldBs(Self, id_a) :
                \A first \in Firsts(Self, id_a),
                   popped \in Pops(pool_at_draw(Self, id_a, force, old_bs)) :
                   LET r == allocate(Self, id_a, force, old_bs, first, popped)
                   IN /\ (r.exc = "MemoryError") <=>
                            /\ draw_needed(Self, id_a, force)
                            /\ PoolLen(pool_at_draw(Self, id_a, force, old_bs)) = 0
                      /\ r.exc = "MemoryError" => same_table(r, Self)
    /\ cls = M2M =>
          \A id_a \in IdsA :
             \A r \in m2m_allocate_results(Self, id_a) :
                /\ (r.exc = "MemoryError") <=> (count_free(Self) = 0)
                /\ r.exc = "MemoryError" => same_table(r, Self)

\* C12, in a state where no owner is recorded with an empty slot set: the same
\* statement.
C12_PoolExhaustion_NoEmptyEntry == NoEmptyEntry => C12_PoolExhaustion

\* C13 (multi-slot rejection): on an exclusive table in single mode,
\* associate(o, slots) with a list of more than one slot raises ValueError and
\* leaves the free pool and both indexes as they were: the slot o holds is not
\* released and no named slot leaves its owner.
C13_MultiSlotRejection ==
    (cls = EXCL /\ single_mode) =>
        \A o \in IdsA, l \in Lists(IdsB, 2, MaxTargets) :
           \A r \in associate_results(Self, o, AsList(l)) :
              /\ r.exc = "ValueError"
              /\ same_table(r, Self)

\* C13 witness: a single-mode table where o holds a slot, another owner holds
\* a different one, and associate(o, ...) naming both is rejected.
C13_Witness ==
    /\ cls = EXCL
    /\ single_mode
    /\ \E o \in IdsA, p \in IdsA, b \in IdsB, c \in IdsB :
          /\ o # p
          /\ b # c
          /\ get_bs(Self, o) = {b} /\ get_a_is(Self, b, o)
          /\ get_bs(Self, p) = {c} /\ get_a_is(Self, c, p)
          /\ \E r \in associate_results(Self, o, AsList(<<c, b>>)) : r.exc = "ValueError"

\* C14 (closed universe): in every reachable state of either table, whatever
\* slot ids earlier associate and remove_b calls were given, a slot id that
\* allocate returns is one of the ids the constructor was given.
C14_ClosedUniverse ==
    /\ cls = EXCL =>
          \A id_a \in IdsA, force \in BOOLEAN :
             \A r \in allocate_results(Self, id_a, force) :
                r.exc = "none" => r.ret \in universe
    /\ cls = M2M =>
          \A id_a \in IdsA :
             \A r \in m2m_allocate_results(Self, id_a) :
                r.exc = "none" => r.ret \in universe

\* C15 (no empty index entries): in every reachable state of both tables no
\* owner is recorded in the owner->slots index with an empty slot set, and in
\* the shared table no slot is recorded in the slot->owners index with an empty
\* owner set.
C15_NoEmptyIndexEntries ==
    /\ \A o \in DOMAIN a_to_bs : a_to_bs[o] # {}
    /\ cls = M2M => \A b \in DOMAIN b_to_as : b_to_as[b] # {}

\* C15, for the slot->owners index of the shared table alone.
C15_NoEmptyOwnerSets == cls = M2M => \A b \in DOMAIN b_to_as : b_to_as[b] # {}

\* slot id_b is unknown to the table: in neither index and not in the free pool
unknown(s, id_b) ==
    /\ id_b \notin PoolIds(s.free_pool)
    /\ id_b \notin DOMAIN s.b_to_a
    /\ id_b \notin DOMAIN s.b_to_as
    /\ holders(s, id_b) = {}

\* C16 (releasing an unknown slot is a no-op): in either table, remove_b(b) for
\* a slot id that is neither held by an owner nor in the free pool leaves the
\* free pool, count_free and both indexes as they were.
C16_UnknownReleaseNoOp ==
    \A b \in IdsB :
       unknown(Self, b) =>
          /\ cls = EXCL =>
                LET r == remove_b(Self, b)
                IN same_table(r, Self) /\ count_free(r) = count_free(Self)
          /\ cls = M2M =>
                \A r \in m2m_remove_b_results(Self, b) :
                   same_table(r, Self) /\ count_free(r) = count_free(Self)

\* C17 (release is idempotent): in either table and with both pool orderings,
\* from every reachable state, remove_b(b) called twice in a row leaves the
\* table as one call leaves it, and remove_b(b) for a slot that is in the free
\* pool changes neither the free pool (no second copy of b, count_free as
\* before) nor the indexes.
C17_ReleaseIdempotent ==
    \A b \in IdsB :
       /\ cls = EXCL =>
             LET r1 == remove_b(Self, b)
                 r2 == remove_b(after(r1), b)
             IN /\ same_table(r2, r1)
                /\ b \in PoolIds(free_pool) =>
                      same_table(r1, Self) /\ count_free(r1) = count_free(Self)
       /\ cls = M2M =>
             \A r1 \in m2m_remove_b_results(Self, b) :
                /\ \A r2 \in m2m_remove_b_results(after(r1), b) : same_table(r2, r1)
                /\ b \in PoolIds(free_pool) =>
                      same_table(r1, Self) /\ count_free(r1) = count_free(Self)

\* C17, on a pool built without a repeated id: the same statement.
C17_ReleaseIdempotent_DistinctPool == DistinctPool => C17_ReleaseIdempotent

\* C18 (stealing idempotence): on the exclusive table, in single and in
\* multi-slot mode and with both pool orderings, from every reachable state,
\* associate(o, b) called twice in a row leaves the free pool and both indexes
\* as one call leaves them.
C18_StealingIdempotence ==
    cls = EXCL =>
        \A o \in IdsA, b \in IdsB :
           \A id_bs \in {AsInt(b), AsList(<<b>>)} :
              \A r1 \in associate_results(Self, o, id_bs) :
                 \A r2 \in associate_results(after(r1), o, id_bs) :
                    same_table(r2, r1)

\* C18, on a pool built without a repeated id: the same statement.
C18_StealingIdempotence_DistinctPool == DistinctPool => C18_StealingIdempotence

\* C18 witness: a single-mode table built without a repeated id where o holds
\* b and p holds c; associate(o, b) again releases b, takes it back and ends
\* with the table as it is, and associate(o, c) steals c from p.
C18_Witness ==
    /\ cls = EXCL
    /\ single_mode
    /\ ~repeated_ids
    /\ \E o \in IdsA, p \in IdsA, b \in IdsB, c \in IdsB :
          /\ o # p
          /\ b # c
          /\ get_bs(Self, o) = {b} /\ get_a_is(Self, b, o)
          /\ get_bs(Self, p) = {c} /\ get_a_is(Self, c, p)
          /\ \A r \in associate_results(Self, o, AsInt(b)) :
                r.exc = "none" /\ same_table(r, Self)
          /\ \E r \in associate_results(Self, o, AsInt(c)) :
                /\ r.exc = "none"
                /\ get_a_is(r, c, o)
                /\ p \notin DOMAIN r.a_to_bs
                /\ b \in PoolIds(r.free_pool)

\* C19 (shared associate never steals): on the shared table associate(o, slots)
\* only adds edges: the owner set of every named slot is what it was plus o,
\* the slot set of every other owner and the owner set of every unnamed slot
\* are unchanged, unnamed slots stay in the free pool as they were, and
\* count_free drops by the number of distinct named slots that were free.
C19_SharedAssociateNeverSteals ==
    cls = M2M =>
        \A o \in IdsA, id_bs \in IdBs :
           LET r == m2m_associate(Self, o, id_bs)
           IN /\ r.exc = "none"
              /\ \A b \in named(id_bs) : get_as(r, b) = get_as(Self, b) \cup {o}
              /\ \A p \in IdsA \ {o} :
                    /\ get_bs(r, p) = get_bs(Self, p)
                    /\ (p \in DOMAIN r.a_to_bs) <=> (p \in DOMAIN a_to_bs)
              /\ \A b \in IdsB \ named(id_bs) :
                    /\ get_as(r, b) = get_as(Self, b)
                    /\ PoolCount(r.free_pool, b) = PoolCount(free_pool, b)
              /\ count_free(r) =
                    count_free(Self) - Cardinality(named(id_bs) \cap PoolIds(free_pool))

\* C19, on a pool built without a repeated id: the same statement.
C19_SharedAssociateNeverSteals_DistinctPool ==
    DistinctPool => C19_SharedAssociateNeverSteals

\* C20 (shared remove_b is a global override): on the shared table remove_b(b)
\* for a slot held by any number of owners leaves b without owners, takes b out
\* of the slot set of every owner that held it, deletes the entry of an owner
\* that held nothing else and keeps every other entry, puts b in the free pool,
\* and changes no other slot's owner set or place in the pool.
C20_SharedRemoveSlot ==
    cls = M2M =>
        \A b \in IdsB :
           get_as(Self, b) # {} =>
              \A r \in m2m_remove_b_results(Self, b) :
                 /\ r.exc = "none"
                 /\ get_as(r, b) = {}
                 /\ b \notin DOMAIN r.b_to_as
                 /\ \A o \in IdsA : get_bs(r, o) = get_bs(Self, o) \ {b}
                 /\ \A o \in get_as(Self, b) :
                       (o \in DOMAIN r.a_to_bs) <=> (get_bs(Self, o) \ {b} # {})
                 /\ \A o \in IdsA \ get_as(Self, b) :
                       (o \in DOMAIN r.a_to_bs) <=> (o \in DOMAIN a_to_bs)
                 /\ b \in PoolIds(r.free_pool)
                 /\ \A c \in IdsB \ {b} :
                       /\ get_as(r, c) = get_as(Self, c)
                       /\ PoolCount(r.free_pool, c) = PoolCount(free_pool, c)

\* C20 witness: a shared table built without a repeated id where slot b is held
\* by two owners, one of which holds another slot too, and remove_b(b) frees b,
\* deletes the owner that held only b and keeps the other.
C20_Witness ==
    /\ cls = M2M
    /\ ~repeated_ids
    /\ \E o \in IdsA, p \in IdsA, b \in IdsB, c \in IdsB :
          /\ o # p
          /\ b # c
          /\ get_as(Self, b) = {o, p}
          /\ get_bs(Self, o) = {b}
          /\ get_bs(Self, p) = {b, c}
          /\ b \notin PoolIds(free_pool)
          /\ \E r \in m2m_remove_b_results(Self, b) :
                /\ get_as(r, b) = {}
                /\ o \notin DOMAIN r.a_to_bs
                /\ get_bs(r, p) = {c}
                /\ b \in PoolIds(r.free_pool)

\* the slots that id_a holds and no other owner holds (shared table)
held_alone(s, id_a) == {b \in get_bs(s, id_a) : get_as(s, b) \subseteq {id_a}}

\* C21, exclusive table: after remove_a(o) the owner has no slots, every slot
\* it held has no owner, and count_free has grown by the number of slots it
\* held.
C21_ExclusiveRoundTrip ==
    cls = EXCL =>
        \A o \in IdsA :
           \A r \in remove_a_results(Self, o) :
              /\ get_bs(r, o) = {}
              /\ o \notin DOMAIN r.a_to_bs
              /\ \A b \in get_bs(Self, o) : b \notin DOMAIN r.b_to_a
              /\ count_free(r) = count_free(Self) + Cardinality(get_bs(Self, o))

\* C21, shared table: after remove_a(o) the owner has no slots, every slot it
\* held has an empty owner set, and count_free has grown by the number of slots
\* it held.
C21_SharedRoundTrip ==
    cls = M2M =>
        \A o \in IdsA :
           \A r \in m2m_remove_a_results(Self, o) :
              /\ get_bs(r, o) = {}
              /\ o \notin DOMAIN r.a_to_bs
              /\ \A b \in get_bs(Self, o) : get_as(r, b) = {}
              /\ count_free(r) = count_free(Self) + Cardinality(get_bs(Self, o))

\* C21 (remove_a round trip): in either table, from every reachable state,
\* after remove_a(o) the owner has no slots, every slot it held before the call
\* is reported free (get_a gives None / get_as gives the empty set), and
\* count_free has increased by exactly the number of slots o held.
C21_RemoveOwnerRoundTrip == C21_ExclusiveRoundTrip /\ C21_SharedRoundTrip

\* C21, exclusive table on a pool built without a repeated id: the same
\* statement.
C21_ExclusiveRoundTrip_DistinctPool == DistinctPool => C21_ExclusiveRoundTrip

\* C21, shared table on a pool built without a repeated id: the same statement.
C21_SharedRoundTrip_DistinctPool == DistinctPool => C21_SharedRoundTrip

\* C21, shared table, counting references: after remove_a(o) the owner has no
\* slots, every slot it held has the owners it had less o, the slots it held
\* alone are in the free pool, and count_free has grown by the number of slots
\* it held alone.
C21_SharedRoundTrip_RefCounted ==
    cls = M2M =>
        \A o \in IdsA :
           \A r \in m2m_remove_a_results(Self, o) :
              /\ get_bs(r, o) = {}
              /\ o \notin DOMAIN r.a_to_bs
              /\ \A b \in get_bs(Self, o) : get_as(r, b) = get_as(Self, b) \ {o}
              /\ \A b \in held_alone(Self, o) : b \in PoolIds(r.free_pool)
              /\ count_free(r) = count_free(Self) + Cardinality(held_alone(Self, o))

====
